---- MODULE Spec2Model ----
(***************************************************************************)
(* A model of the Moodle course downloader (src/main.py): the filename     *)
(* sanitizer, the course-page scraper, the resource fetcher with its       *)
(* folder resolver, and the thread-pool download scheduler.                *)
(*                                                                         *)
(* Text is modelled as a sequence of characters (one-element strings),     *)
(* a URL as a sequence of substrings, and a filesystem path as a sequence  *)
(* of components, each component a sequence of characters.                 *)
(***************************************************************************)
EXTENDS Naturals, Sequences, FiniteSets, TLC

VARIABLES
    \* filename sanitizer
    filename,       \* the argument of create_valid_filename
    sanitized,      \* its return value
    sanPc,          \* "start" before the call, "done" after it
    \* page scraper
    page,           \* the parsed course page served for the course
    scrapePc,       \* "start", "ok" (page fetched), "failed" (RequestException)
    resources,      \* the list get_course_content returns
    \* resource fetcher and folder resolver
    job,            \* the course / section / resource the fetch was started for
    stack,          \* call stack of download_resource / download_folder_contents
    served,         \* number of folder-listing links the server has served
    retFile,        \* record of the last direct-file download_resource call
                    \* that ended, with the path it wrote to
    retFolder,      \* record of the last download_folder_contents call
    \* download scheduler
    nitems,         \* len(resources) handed to download_resources_in_parallel
    schedPc,        \* position of the calling thread
    submitted,      \* number of items submitted so far
    queue,          \* the executor's work queue (item indices, FIFO)
    threads,        \* number of worker threads the executor has started
    future,         \* per item: the state of its future
    yielded,        \* futures as_completed has yielded and result() was called on
    cause           \* why the call raised, "none" while it has not

sanVars    == <<filename, sanitized, sanPc>>
scrapeVars == <<page, scrapePc, resources>>
fetchVars  == <<job, stack, served, retFile, retFolder>>
schedVars  == <<nitems, schedPc, submitted, queue, threads, future, yielded, cause>>
vars       == <<sanVars, scrapeVars, fetchVars, schedVars>>

(***************************************************************************)
(* Bounds of the model.                                                    *)
(***************************************************************************)
MaxLen      == 3    \* longest raw string handed to the sanitizer
MaxActs     == 3    \* most activities in a section of a course page
MaxLinks    == 3    \* most links the server serves over the listings of a run
MaxItems    == 6    \* most resources in one scheduler call

\* the sequences over S of length at most n
RECURSIVE SeqsUpTo(_, _)
SeqsUpTo(S, n) ==
    IF n = 0 THEN {<<>>}
    ELSE LET shorter == SeqsUpTo(S, n - 1)
         IN  shorter \cup {Append(s, x) : s \in {t \in shorter : Len(t) = n - 1},
                                          x \in S}

(***************************************************************************)
(* Characters.  "U+00E9" stands for a non-ASCII letter (str.isalnum is     *)
(* true of it), "TAB" for whitespace other than the space.                 *)
(***************************************************************************)
AsciiAlnum == {"a", "7"}
Alnum      == AsciiAlnum \cup {"U+00E9"}
Whitespace == {" ", "TAB"}
Alphabet   == Alnum \cup Whitespace \cup {"-", "_", ".", "/"}

\* [A-Za-z0-9 _.-]
AsciiSafe  == AsciiAlnum \cup {" ", "_", ".", "-"}

isalnum(c) == c \in Alnum
isspace(c) == c \in Whitespace

RECURSIVE rstrip(_)
rstrip(s) ==
    IF s = <<>> THEN <<>>
    ELSE IF isspace(s[Len(s)]) THEN rstrip(SubSeq(s, 1, Len(s) - 1))
    ELSE s

KeptChar(c) == isalnum(c) \/ c \in {" ", "-", "_", "."}

\* the sanitizer without its trailing rstrip()
create_valid_filename_no_rstrip(name) == SelectSeq(name, KeptChar)

create_valid_filename(name) == rstrip(SelectSeq(name, KeptChar))

(***************************************************************************)
(* URLs.  A URL is the sequence of the substrings it is made of; the       *)
(* Python test `marker in url` is the occurrence of the marker in it.      *)
(***************************************************************************)
Contains(url, marker) == \E i \in DOMAIN url : url[i] = marker

base_url == <<"https://moodle.example">>

IsAbsolute(url) == url # <<>> /\ url[1] \in {"https://moodle.example", "https://cdn.example"}

\* urljoin left out: the anchor's href is requested as it stands
urljoin_unresolved(base, ref) == ref

\* urllib.parse.urljoin for the two shapes of reference the model serves:
\* an absolute URL is kept, a path is appended to the base.
urljoin(base, ref) == IF IsAbsolute(ref) THEN ref ELSE base \o ref

(***************************************************************************)
(* Page scraper: MoodleDownloader.get_course_content.                      *)
(***************************************************************************)
lstrip(s) ==
    IF \A i \in DOMAIN s : isspace(s[i]) THEN <<>>
    ELSE LET first == CHOOSE i \in DOMAIN s :
                          /\ ~isspace(s[i])
                          /\ \A j \in 1..(i - 1) : isspace(s[j])
         IN  SubSeq(s, first, Len(s))

strip(s) == rstrip(lstrip(s))

General == <<"G", "e", "n", "e", "r", "a", "l">>

\* links of a course page
ResourceLink == base_url \o <<"/mod/", "resource", "/view.php?id=1">>
FolderLink   == base_url \o <<"/mod/", "folder", "/view.php?id=2">>
BothLink     == base_url \o <<"/mod/", "resource", "/view.php?id=3&from=", "folder">>
QuizLink     == base_url \o <<"/mod/", "quiz", "/view.php?id=4">>
PageLinks    == {ResourceLink, FolderLink, BothLink, QuizLink}

\* an <a> element: with or without an href attribute
Anchor(u)  == [hashref |-> TRUE, href |-> u]
BareAnchor == [hashref |-> FALSE, href |-> <<>>]

\* the <a> elements of an activity, in document order
AnchorLists ==
    {<<>>, <<BareAnchor>>}
        \cup {<<Anchor(u)>> : u \in PageLinks}
        \cup {<<BareAnchor, Anchor(FolderLink)>>, <<Anchor(QuizLink), Anchor(ResourceLink)>>}

\* an element that may be missing from the markup, with its text
Element(t) == [present |-> TRUE, text |-> t]
Missing    == [present |-> FALSE, text |-> <<>>]

InstanceNames == {Missing, Element(<<" ", "a", ".", " ">>)}
SectionNames  == {Missing, Element(<<"a", " ", "7", "TAB">>)}

Activities == [instancename : InstanceNames, anchors : AnchorLists]

Sections(n) == [sectionname : SectionNames, activities : SeqsUpTo(Activities, n)]

\* course pages: one section of up to MaxActs activities, or two sections
\* of at most one activity each
Pages ==
    {<<>>} \cup {<<s>> : s \in Sections(MaxActs)}
           \cup {<<s, t>> : s \in Sections(1), t \in Sections(1)}

\* activity.find('a', href=True): the first <a> that has an href
RECURSIVE FindHref(_)
FindHref(anchors) ==
    IF anchors = <<>> THEN BareAnchor
    ELSE IF Head(anchors).hashref THEN Head(anchors)
    ELSE FindHref(Tail(anchors))

\* the two tests taken in the wrong order
ResourceTypeResourceFirst(url) ==
    IF Contains(url, "resource") THEN "resource" ELSE "folder"

\* 'folder' if 'folder' in url else 'resource'
ResourceType(url) == IF Contains(url, "folder") THEN "folder" ELSE "resource"

\* the body of the loop over a section's activities
ActivityResources(section_name, activity) ==
    IF ~activity.instancename.present THEN <<>>
    ELSE LET name == strip(activity.instancename.text)
             link == FindHref(activity.anchors)
         IN  IF ~link.hashref THEN <<>>
             ELSE IF Contains(link.href, "resource") \/ Contains(link.href, "folder")
             THEN <<[section |-> section_name,
                     name    |-> name,
                     url     |-> link.href,
                     type    |-> ResourceType(link.href)]>>
             ELSE <<>>

RECURSIVE SectionActivities(_, _)
SectionActivities(section_name, activities) ==
    IF activities = <<>> THEN <<>>
    ELSE ActivityResources(section_name, Head(activities))
             \o SectionActivities(section_name, Tail(activities))

SectionResources(section) ==
    LET section_name == IF section.sectionname.present
                        THEN strip(section.sectionname.text)
                        ELSE General
    IN  SectionActivities(section_name, section.activities)

RECURSIVE Scrape(_)
Scrape(sections) ==
    IF sections = <<>> THEN <<>>
    ELSE SectionResources(Head(sections)) \o Scrape(Tail(sections))

\* get_course_content: the GET either raises a RequestException, and the
\* result is the empty list, or the page is parsed and scraped
get_course_content ==
    /\ scrapePc = "start"
    /\ \E ok \in BOOLEAN :
           /\ scrapePc' = IF ok THEN "ok" ELSE "failed"
           /\ resources' = IF ok THEN Scrape(page) ELSE <<>>
    /\ UNCHANGED <<page, sanVars, fetchVars, schedVars>>

(***************************************************************************)
(* Paths (pathlib).  A path is the sequence of its components.             *)
(***************************************************************************)
Dot    == <<".">>
DotDot == <<".", ".">>

\* Path("moodle_downloads")
moodle_downloads == <<<<"moodle_downloads">>>>

\* path / name: an empty or "." component is dropped, ".." is kept as it is
PathJoin(path, name) == IF name \in {<<>>, Dot} THEN path ELSE Append(path, name)

\* path.parent, which is lexical
Parent(path) == IF path = <<>> THEN <<>> ELSE SubSeq(path, 1, Len(path) - 1)

\* PurePath.suffix of a final component: from its last dot, unless that dot
\* is the first or the last character
SuffixStart(name) ==
    LET dots == {i \in DOMAIN name : name[i] = "."}
    IN  IF dots = {} THEN 0
        ELSE LET last == CHOOSE i \in dots : \A j \in dots : j <= i
             IN  IF 1 < last /\ last < Len(name) THEN last ELSE 0

HasName(path) == path # <<>>

\* path.with_suffix(ext), for a path that has a name
with_suffix(path, ext) ==
    LET name == path[Len(path)]
        cut  == SuffixStart(name)
        stem == IF cut = 0 THEN name ELSE SubSeq(name, 1, cut - 1)
    IN  Append(Parent(path), stem \o ext)

\* where the operating system finds the path: ".." steps out of the
\* directory reached so far
RECURSIVE Resolve(_)
Resolve(path) ==
    IF path = <<>> THEN <<>>
    ELSE LET dir  == Resolve(Parent(path))
             name == path[Len(path)]
         IN  IF name = DotDot /\ dir # <<>> /\ dir[Len(dir)] # DotDot
             THEN Parent(dir)
             ELSE Append(dir, name)

(***************************************************************************)
(* Content types: the header value split at its semicolons.                *)
(***************************************************************************)
HtmlType  == <<"text/html", " charset=utf-8">>
PdfType   == <<"application/pdf">>
PlainType == <<"text/plain">>
ContentTypes == {HtmlType, PdfType, PlainType}

Pdf == <<".", "p", "d", "f">>
Zip == <<".", "z", "i", "p">>

ext_map == [t \in {"application/pdf", "application/zip"} |->
               IF t = "application/pdf" THEN Pdf ELSE Zip]

\* ext_map.get(content_type.split(';')[0], '')
get_extension_from_content_type(content_type) ==
    LET mime == IF content_type = <<>> THEN "" ELSE content_type[1]
    IN  IF mime \in DOMAIN ext_map THEN ext_map[mime] ELSE <<>>

(***************************************************************************)
(* What the server can answer.                                             *)
(***************************************************************************)
\* the <a data-downloadurl=...> element of a landing page, if it has one
NoAnchor   == [present |-> FALSE, hashref |-> FALSE, href |-> <<>>]
DownloadHrefs ==
    {<<"/", "pluginfile.php", "/9/mod_", "resource", "/content/1/a.pdf">>,
     <<"https://cdn.example", "/a.pdf">>}
DownloadAnchors ==
    {NoAnchor, [present |-> TRUE, hashref |-> FALSE, href |-> <<>>]}
        \cup {[present |-> TRUE, hashref |-> TRUE, href |-> h] : h \in DownloadHrefs}

\* a response; its body is identified by the URL it was served from
Failed == [ok |-> FALSE, ct |-> <<>>, body |-> <<>>, parses |-> FALSE,
           anchor |-> NoAnchor, links |-> <<>>]
Ok(u, ct, parses, anchor, links) ==
    [ok |-> TRUE, ct |-> ct, body |-> u, parses |-> parses,
     anchor |-> anchor, links |-> links]

\* answers to the first GET of a file: an error, a file, or an HTML page
FileResponses(u) ==
    {Failed}
        \cup {Ok(u, ct, TRUE, NoAnchor, <<>>) : ct \in {PdfType, PlainType}}
        \cup {Ok(u, HtmlType, TRUE, a, <<>>) : a \in DownloadAnchors}
        \cup {Ok(u, HtmlType, FALSE, NoAnchor, <<>>)}

\* answers to the GET of the download anchor's URL
SecondResponses(u) ==
    {Failed} \cup {Ok(u, ct, TRUE, NoAnchor, <<>>) : ct \in ContentTypes}

\* links of a folder listing page
DirectFile == base_url \o <<"/", "pluginfile.php", "/7/mod_", "resource", "/content/1/a.pdf">>
FolderFile == base_url \o <<"/", "pluginfile.php", "/8/mod_", "folder", "/content/1/b.pdf">>
ViewLink   == base_url \o <<"/mod/", "page", "/view.php?id=5">>
Link(href, text) == [href |-> href, text |-> text]
ListingLinks ==
    {Link(DirectFile, <<" ", "a", "/">>), Link(FolderFile, DotDot), Link(ViewLink, <<"a">>)}

\* answers to the GET of a listing: an error, a page that does not parse,
\* or a page with up to n links
ListingResponses(u, n) ==
    {Failed, Ok(u, HtmlType, FALSE, NoAnchor, <<>>)}
        \cup {Ok(u, HtmlType, TRUE, NoAnchor, l) : l \in SeqsUpTo(ListingLinks, n)}

(***************************************************************************)
(* Resource fetcher and folder resolver: the call stack.                   *)
(***************************************************************************)
NewFrame(fn, url, path, fromFolder) ==
    [fn |-> fn, url |-> url, target |-> url, path |-> path, pc |-> "start",
     fromFolder |-> fromFolder,
     resp |-> Failed, first |-> Failed, gets |-> <<>>,
     getFailed |-> FALSE, fault |-> FALSE, written |-> FALSE,
     links |-> <<>>, success |-> FALSE, nplug |-> 0, nwrites |-> 0,
     childGetFails |-> 0, childFaults |-> 0]

Top == stack[Len(stack)]
InCall(fn, pc) == stack # <<>> /\ Top.fn = fn /\ Top.pc = pc

NoFile ==
    [valid |-> FALSE, url |-> <<>>, gets |-> <<>>, first |-> Failed, resp |-> Failed,
     getFailed |-> FALSE, fault |-> FALSE, written |-> FALSE, path |-> <<>>,
     raised |-> FALSE, result |-> FALSE, fromFolder |-> FALSE]
NoFolder ==
    [valid |-> FALSE, listed |-> FALSE, nplug |-> 0, childGetFails |-> 0,
     childFaults |-> 0, nwrites |-> 0, result |-> FALSE]

\* an exception escapes download_resource: nothing catches it
download_resource_uncaught == [raised |-> TRUE, value |-> FALSE]

\* except Exception as e: ... return False
download_resource_except == [raised |-> FALSE, value |-> FALSE]

Returns(v) == [raised |-> FALSE, value |-> v]

\* the caller's loop body: if self.download_resource(href, save_path): success = True
Resume(parent, v, getFail, fault, wrote) ==
    [parent EXCEPT !.pc = "loop",
                   !.success = @ \/ v,
                   !.nwrites = @ + wrote,
                   !.childGetFails = @ + (IF getFail THEN 1 ELSE 0),
                   !.childFaults = @ + (IF fault THEN 1 ELSE 0)]

\* The call whose frame is f ends with outcome out.  A folder call returns
\* through the download_resource that delegated to it (return
\* self.download_folder_contents(...)); the loop of the folder call below,
\* if there is one, goes on.
Return(f, out) ==
    LET isFile == f.fn = "download_resource"
        outer  == SubSeq(stack, 1, Len(stack) - (IF isFile THEN 1 ELSE 2))
        fault  == f.fault \/ f.childGetFails > 0 \/ f.childFaults > 0
        wrote  == IF isFile THEN (IF f.written THEN 1 ELSE 0) ELSE f.nwrites
    IN  /\ stack' = IF outer = <<>> \/ out.raised THEN <<>>
                    ELSE [outer EXCEPT ![Len(outer)] =
                              Resume(@, out.value, f.getFailed, fault, wrote)]
        /\ retFile' = IF isFile
                      THEN [valid |-> TRUE, url |-> f.url, gets |-> f.gets,
                            first |-> f.first, resp |-> f.resp,
                            getFailed |-> f.getFailed, fault |-> f.fault,
                            written |-> f.written, path |-> f.path,
                            raised |-> out.raised,
                            result |-> out.value, fromFolder |-> f.fromFolder]
                      ELSE retFile
        /\ retFolder' = IF isFile THEN retFolder
                        ELSE [valid |-> TRUE, listed |-> f.resp.ok /\ f.resp.parses,
                              nplug |-> f.nplug, childGetFails |-> f.childGetFails,
                              childFaults |-> f.childFaults, nwrites |-> f.nwrites,
                              result |-> out.value]

Goto(f) == stack' = [stack EXCEPT ![Len(stack)] = f]

\* directories of the run: the download root, the course directory and the
\* section directory made before the fetch starts, and what lies above them
course_dir(j)  == PathJoin(moodle_downloads, create_valid_filename(j.course))
section_dir(j) == PathJoin(course_dir(j), create_valid_filename(j.section))
file_path(j)   == PathJoin(section_dir(j), create_valid_filename(j.name))

IsPrefix(p, q) == Len(p) <= Len(q) /\ SubSeq(q, 1, Len(p)) = p

IsDirectory(path) ==
    LET where == Resolve(path)
    IN  \/ where = <<>>
        \/ where[Len(where)] = DotDot
        \/ \E d \in {moodle_downloads, course_dir(job), section_dir(job)} :
               IsPrefix(where, Resolve(d))

\* if 'folder' in url: return self.download_folder_contents(url, save_path.parent)
download_resource_folder ==
    /\ InCall("download_resource", "start")
    /\ Contains(Top.url, "folder")
    /\ stack' = Append([stack EXCEPT ![Len(stack)].pc = "in_folder"],
                       NewFrame("download_folder_contents", Top.url,
                                Parent(Top.path), Top.fromFolder))
    /\ UNCHANGED <<job, served, retFile, retFolder>>
    /\ UNCHANGED <<sanVars, scrapeVars, schedVars>>

\* the first GET, and the search of an HTML answer for the download anchor
download_resource_get ==
    /\ InCall("download_resource", "start")
    /\ ~Contains(Top.url, "folder")
    /\ \E r \in FileResponses(Top.url) :
           LET f == [Top EXCEPT !.gets = <<Top.url>>, !.first = r, !.resp = r]
           IN  IF ~r.ok
               THEN Return([f EXCEPT !.getFailed = TRUE], download_resource_except)
               ELSE IF ~Contains(r.ct, "text/html")
               THEN Goto([f EXCEPT !.pc = "write"]) /\ UNCHANGED <<retFile, retFolder>>
               ELSE IF ~r.parses
               THEN Return([f EXCEPT !.fault = TRUE], download_resource_except)
               ELSE IF ~r.anchor.present
               THEN Goto([f EXCEPT !.pc = "write"]) /\ UNCHANGED <<retFile, retFolder>>
               ELSE IF ~r.anchor.hashref
               THEN \* download_link['href'] raises KeyError
                    Return([f EXCEPT !.fault = TRUE], download_resource_except)
               ELSE /\ Goto([f EXCEPT !.pc = "get2",
                                      !.target = urljoin(base_url, r.anchor.href)])
                    /\ UNCHANGED <<retFile, retFolder>>
    /\ UNCHANGED <<job, served>>
    /\ UNCHANGED <<sanVars, scrapeVars, schedVars>>

\* the second GET, to the download anchor's URL
download_resource_get2 ==
    /\ InCall("download_resource", "get2")
    /\ \E r \in SecondResponses(Top.target) :
           LET f == [Top EXCEPT !.gets = Append(@, Top.target), !.resp = r]
           IN  IF ~r.ok
               THEN Return([f EXCEPT !.getFailed = TRUE], download_resource_except)
               ELSE Goto([f EXCEPT !.pc = "write"]) /\ UNCHANGED <<retFile, retFolder>>
    /\ UNCHANGED <<job, served>>
    /\ UNCHANGED <<sanVars, scrapeVars, schedVars>>

\* the extension, the write of the body and the return
download_resource_write ==
    /\ InCall("download_resource", "write")
    /\ LET ext == get_extension_from_content_type(Top.resp.ct)
       IN  IF ext # <<>> /\ ~HasName(Top.path)
           THEN \* with_suffix raises ValueError: the path has an empty name
                Return([Top EXCEPT !.fault = TRUE], download_resource_except)
           ELSE LET save_path == IF ext # <<>> THEN with_suffix(Top.path, ext)
                                 ELSE Top.path
                IN  \/ \* the body is written: return True
                       /\ ~IsDirectory(save_path)
                       /\ Return([Top EXCEPT !.path = save_path, !.written = TRUE],
                                 Returns(TRUE))
                    \/ \* open or write raises OSError
                       Return([Top EXCEPT !.path = save_path, !.fault = TRUE],
                              download_resource_except)
    /\ UNCHANGED <<job, served>>
    /\ UNCHANGED <<sanVars, scrapeVars, schedVars>>

\* the GET of the listing page and its parse
download_folder_contents_get ==
    /\ InCall("download_folder_contents", "start")
    /\ \E r \in ListingResponses(Top.url, MaxLinks - served) :
           LET f == [Top EXCEPT !.gets = <<Top.url>>, !.first = r, !.resp = r]
           IN  /\ served' = served + Len(r.links)
               /\ IF ~r.ok
                  THEN Return([f EXCEPT !.getFailed = TRUE], Returns(FALSE))
                  ELSE IF ~r.parses
                  THEN Return([f EXCEPT !.fault = TRUE], Returns(FALSE))
                  ELSE /\ Goto([f EXCEPT !.pc = "loop", !.links = r.links])
                       /\ UNCHANGED <<retFile, retFolder>>
    /\ UNCHANGED job
    /\ UNCHANGED <<sanVars, scrapeVars, schedVars>>

\* a link that is not a pluginfile.php link is passed over
download_folder_contents_skip ==
    /\ InCall("download_folder_contents", "loop")
    /\ Top.links # <<>>
    /\ ~Contains(Head(Top.links).href, "pluginfile.php")
    /\ Goto([Top EXCEPT !.links = Tail(@)])
    /\ UNCHANGED <<job, served, retFile, retFolder>>
    /\ UNCHANGED <<sanVars, scrapeVars, schedVars>>

\* a pluginfile.php link: self.download_resource(href, save_path)
download_folder_contents_call ==
    /\ InCall("download_folder_contents", "loop")
    /\ Top.links # <<>>
    /\ Contains(Head(Top.links).href, "pluginfile.php")
    /\ LET file_link == Head(Top.links)
           link_text == strip(file_link.text)
           save_path == PathJoin(Top.path, create_valid_filename(link_text))
       IN  stack' = Append([stack EXCEPT ![Len(stack)] =
                                [@ EXCEPT !.links = Tail(@), !.pc = "in_child",
                                          !.nplug = @ + 1]],
                           NewFrame("download_resource", file_link.href, save_path, TRUE))
    /\ UNCHANGED <<job, served, retFile, retFolder>>
    /\ UNCHANGED <<sanVars, scrapeVars, schedVars>>

\* the loop is over: return success
download_folder_contents_return ==
    /\ InCall("download_folder_contents", "loop")
    /\ Top.links = <<>>
    /\ Return(Top, Returns(Top.success))
    /\ UNCHANGED <<job, served>>
    /\ UNCHANGED <<sanVars, scrapeVars, schedVars>>

(***************************************************************************)
(* Filename sanitizer: one call of create_valid_filename.                  *)
(***************************************************************************)
Sanitize ==
    /\ sanPc = "start"
    /\ sanitized' = create_valid_filename(filename)
    /\ sanPc' = "done"
    /\ UNCHANGED <<filename, scrapeVars, fetchVars, schedVars>>

(***************************************************************************)
(* Initial states.  Each specification starts its own part of the program  *)
(* and leaves the other parts idle.                                        *)
(***************************************************************************)
SanIdle    == filename = <<>> /\ sanitized = <<>> /\ sanPc = "idle"
ScrapeIdle == page = <<>> /\ scrapePc = "idle" /\ resources = <<>>
FetchIdle  ==
    /\ job = [course |-> <<>>, section |-> <<>>, name |-> <<>>, url |-> <<>>]
    /\ stack = <<>>
    /\ served = 0
    /\ retFile = NoFile
    /\ retFolder = NoFolder
SchedIdle  ==
    /\ nitems = 0
    /\ schedPc = "idle"
    /\ submitted = 0
    /\ queue = <<>>
    /\ threads = 0
    /\ future = <<>>
    /\ yielded = {}
    /\ cause = "none"

InitSan ==
    /\ filename \in SeqsUpTo(Alphabet, MaxLen)
    /\ sanitized = <<>>
    /\ sanPc = "start"
    /\ ScrapeIdle /\ FetchIdle /\ SchedIdle

NextSan == Sanitize
SpecSan == InitSan /\ [][NextSan]_vars

InitScrape ==
    /\ page \in Pages
    /\ scrapePc = "start"
    /\ resources = <<>>
    /\ SanIdle /\ FetchIdle /\ SchedIdle

NextScrape == get_course_content
SpecScrape == InitScrape /\ [][NextScrape]_vars

\* raw names of courses, sections and resources
RawNames == {<<"a">>, DotDot, <<"/", " ">>}
Job(course, section, name, url) ==
    [course |-> course, section |-> section, name |-> name, url |-> url]
Jobs ==
    {Job(c, s, n, ResourceLink) :
         c \in {<<"a">>, DotDot}, s \in RawNames, n \in {<<"a", ".", "7">>, <<"/", " ">>}}
        \cup {Job(<<"a">>, s, <<"a", ".", "7">>, FolderLink) : s \in {<<"a">>, DotDot}}
        \cup {Job(DotDot, <<"a">>, <<"/", " ">>, FolderLink)}

\* main and download_resources_in_parallel have made the directories and
\* built the file path; download_resource is called with it
InitFetch ==
    /\ job \in Jobs
    /\ stack = <<NewFrame("download_resource", job.url, file_path(job), FALSE)>>
    /\ served = 0
    /\ retFile = NoFile
    /\ retFolder = NoFolder
    /\ SanIdle /\ ScrapeIdle /\ SchedIdle

NextFetch ==
    \/ download_resource_folder
    \/ download_resource_get
    \/ download_resource_get2
    \/ download_resource_write
    \/ download_folder_contents_get
    \/ download_folder_contents_skip
    \/ download_folder_contents_call
    \/ download_folder_contents_return
SpecFetch == InitFetch /\ [][NextFetch]_vars

(***************************************************************************)
(* Download scheduler: download_resources_in_parallel.  The calling thread *)
(* submits one task per resource to a ThreadPoolExecutor, retrieves the    *)
(* results as the tasks complete, and leaves the `with` block, which shuts *)
(* the executor down and waits for its workers.                            *)
(***************************************************************************)
max_workers == 5

Items    == 1..nitems
Running  == {i \in DOMAIN future : future[i] = "running"}
Finished == {i \in DOMAIN future : future[i] \in {"True", "False", "raise"}}

\* how a task ends when download_resource lets an exception escape
TaskOutcomesUncaught == {"True", "False", "raise"}

\* how a task ends: download_resource returns True or False, every
\* exception being caught inside it
TaskOutcomes == {"True", "False"}

\* a thread for every task, whatever the pool's size
NeedsThreadPerTask(nthreads, nrunning, nqueued) == nthreads < nrunning + nqueued

\* ThreadPoolExecutor._adjust_thread_count, after the task is queued: a new
\* worker is started when no idle worker is left for it and the pool is
\* not full
NeedsThread(nthreads, nrunning, nqueued) ==
    nthreads < nrunning + nqueued /\ nthreads < max_workers

\* the loop over as_completed stops without waiting for pending futures
AsCompletedExhaustedNoWait(done) == done = Finished

\* as_completed(futures) is exhausted when every future has been yielded
AsCompletedExhausted(done) == done = Items

\* one iteration of the submission loop: the section directory is made,
\* which can raise OSError, and the task is submitted
submit ==
    /\ schedPc = "submit"
    /\ submitted < nitems
    /\ \/ /\ schedPc' = "unwind"
          /\ cause' = "mkdir"
          /\ UNCHANGED <<submitted, queue, threads, future>>
       \/ /\ submitted' = submitted + 1
          /\ future' = [future EXCEPT ![submitted + 1] = "pending"]
          /\ queue' = Append(queue, submitted + 1)
          /\ threads' = IF NeedsThread(threads, Cardinality(Running), Len(queue) + 1)
                        THEN threads + 1 ELSE threads
          /\ schedPc' = IF submitted + 1 = nitems THEN "collect" ELSE "submit"
          /\ UNCHANGED cause
    /\ UNCHANGED <<nitems, yielded>>
    /\ UNCHANGED <<sanVars, scrapeVars, fetchVars>>

\* an idle worker takes the oldest task of the queue
worker_start ==
    /\ queue # <<>>
    /\ Cardinality(Running) < threads
    /\ future' = [future EXCEPT ![Head(queue)] = "running"]
    /\ queue' = Tail(queue)
    /\ UNCHANGED <<nitems, schedPc, submitted, threads, yielded, cause>>
    /\ UNCHANGED <<sanVars, scrapeVars, fetchVars>>

\* a worker's download_resource call ends
worker_finish ==
    /\ \E i \in Running, outcome \in TaskOutcomes :
           future' = [future EXCEPT ![i] = outcome]
    /\ UNCHANGED <<nitems, schedPc, submitted, queue, threads, yielded, cause>>
    /\ UNCHANGED <<sanVars, scrapeVars, fetchVars>>

\* as_completed yields a finished future and future.result() is called on
\* it, which raises what the task raised
as_completed_result ==
    /\ schedPc = "collect"
    /\ \E i \in Finished \ yielded :
           /\ yielded' = yielded \cup {i}
           /\ IF future[i] = "raise"
              THEN schedPc' = "unwind" /\ cause' = "task"
              ELSE UNCHANGED <<schedPc, cause>>
    /\ UNCHANGED <<nitems, submitted, queue, threads, future>>
    /\ UNCHANGED <<sanVars, scrapeVars, fetchVars>>

\* the loop over as_completed ends
as_completed_stop ==
    /\ schedPc = "collect"
    /\ AsCompletedExhausted(yielded)
    /\ schedPc' = "shutdown"
    /\ UNCHANGED <<nitems, submitted, queue, threads, future, yielded, cause>>
    /\ UNCHANGED <<sanVars, scrapeVars, fetchVars>>

\* the `with` block is left: shutdown(wait=True) joins the workers, which
\* first finish every task submitted; then the call returns, or the
\* exception that ended the block goes on to the caller
executor_shutdown ==
    /\ schedPc \in {"shutdown", "unwind"}
    /\ queue = <<>>
    /\ Running = {}
    /\ schedPc' = IF schedPc = "shutdown" THEN "returned" ELSE "raised"
    /\ UNCHANGED <<nitems, submitted, queue, threads, future, yielded, cause>>
    /\ UNCHANGED <<sanVars, scrapeVars, fetchVars>>

InitSched ==
    /\ nitems \in 0..MaxItems
    /\ schedPc = IF nitems = 0 THEN "collect" ELSE "submit"
    /\ submitted = 0
    /\ queue = <<>>
    /\ threads = 0
    /\ future = [i \in 1..nitems |-> "none"]
    /\ yielded = {}
    /\ cause = "none"
    /\ SanIdle /\ ScrapeIdle /\ FetchIdle

NextSched ==
    \/ submit
    \/ worker_start
    \/ worker_finish
    \/ as_completed_result
    \/ as_completed_stop
    \/ executor_shutdown
SpecSched == InitSched /\ [][NextSched]_vars

(***************************************************************************)
(* Properties.                                                             *)
(***************************************************************************)

\* C1: download_resources_in_parallel returns only after every item's
\* download_resource call has ended, in success or in failure, and its
\* result has been retrieved, whatever the number of items and the order
\* in which the workers finish.
C1_ReturnsAfterEveryResult ==
    schedPc = "returned" =>
        \A i \in Items : future[i] \in {"True", "False"} /\ i \in yielded

\* more items than workers, some failed and some not, and the call returned
C1_Witness ==
    /\ schedPc = "returned"
    /\ nitems > max_workers
    /\ \E i, j \in Items : future[i] = "False" /\ future[j] = "True"

\* C2: an item whose download_resource fails (returns False) neither ends
\* the run nor keeps the others from being submitted, run and observed: the
\* call is cut short by nothing but an error of mkdir in the submission
\* loop, and when it returns every item has ended and been observed.
C2_FailureIsolated ==
    (\E i \in Items : future[i] = "False") =>
        /\ cause # "task"
        /\ schedPc \in {"unwind", "raised"} => cause = "mkdir"
        /\ cause = "none" /\ submitted < nitems => schedPc = "submit"
        /\ schedPc = "returned" =>
               \A j \in Items : future[j] \in {"True", "False"} /\ j \in yielded

\* the first item failed, every other item succeeded, all were observed
C2_Witness ==
    /\ schedPc = "returned"
    /\ nitems >= 3
    /\ future[1] = "False"
    /\ \A j \in Items \ {1} : future[j] = "True" /\ j \in yielded

\* C8: at most 5 download_resource calls run at the same time, however
\* many items there are.
C8_AtMostFiveRunning == Cardinality(Running) <= 5

\* five calls running while a sixth item waits in the queue
C8_Witness == Cardinality(Running) = 5 /\ queue # <<>>

\* C3: a direct-file download_resource call returns True exactly when every
\* GET it issued succeeded and the body was written without error; an
\* exception in a GET, in the parse or in the write gives False and never
\* reaches the caller.
C3_FileResult ==
    retFile.valid =>
        /\ ~retFile.raised
        /\ retFile.result <=> (~retFile.getFailed /\ retFile.written)
        /\ retFile.getFailed \/ retFile.fault => ~retFile.result

\* both GETs succeeded and the write raised: the call returned False
C3_Witness ==
    /\ retFile.valid
    /\ Len(retFile.gets) = 2
    /\ ~retFile.getFailed
    /\ retFile.fault
    /\ ~retFile.written
    /\ ~retFile.result

\* the answer to the first GET is a parsed HTML page
LandingPage(r) == r.ok /\ Contains(r.ct, "text/html") /\ r.parses

\* the download anchor's URL resolved against the base URL
ResolvedAnchor(r) ==
    IF IsAbsolute(r.anchor.href) THEN r.anchor.href ELSE base_url \o r.anchor.href

C4_Original ==
    retFolder.valid =>
        /\ ~retFolder.listed => ~retFolder.result
        /\ retFolder.result <=>
               retFolder.nplug - retFolder.childGetFails - retFolder.childFaults > 0
        /\ (retFolder.nplug = 3 /\ retFolder.childGetFails = 1
                /\ retFolder.childFaults = 0) =>
               retFolder.result /\ retFolder.nwrites = 2

\* C9: no download_resource call made by download_folder_contents enters
\* download_folder_contents again.
C9_Original ==
    \A i \in DOMAIN stack :
        stack[i].fn = "download_folder_contents" => ~stack[i].fromFolder

\* C7: every file written lies at
\* <root>/<course>/<section>/<file name>, the course and section names
\* being the sanitized ones.
C7_Original ==
    retFile.valid /\ retFile.written =>
        LET where == Resolve(retFile.path)
        IN  /\ Len(where) = 4
            /\ SubSeq(where, 1, 3) =
                   moodle_downloads \o <<create_valid_filename(job.course),
                                         create_valid_filename(job.section)>>

\* the activities of a page in document order
RECURSIVE PageActivities(_)
PageActivities(sections) ==
    IF sections = <<>> THEN <<>>
    ELSE Head(sections).activities \o PageActivities(Tail(sections))

\* an activity with a name element whose first link has a marker
Downloadable(activity) ==
    /\ activity.instancename.present
    /\ FindHref(activity.anchors).hashref
    /\ \/ Contains(FindHref(activity.anchors).href, "resource")
       \/ Contains(FindHref(activity.anchors).href, "folder")

\* C5: the scraper returns one descriptor for each activity whose first
\* link contains `resource` or `folder`, in document order, of kind folder
\* when the link contains `folder` and of kind resource when it contains
\* `resource` and not `folder`; an activity whose first link contains
\* neither has no descriptor.
C5_Classification ==
    scrapePc = "ok" =>
        LET kept == SelectSeq(PageActivities(page), Downloadable)
        IN  /\ Len(resources) = Len(kept)
            /\ \A k \in DOMAIN resources :
                   LET url == resources[k].url
                   IN  /\ url = FindHref(kept[k].anchors).href
                       /\ Contains(url, "folder") => resources[k].type = "folder"
                       /\ Contains(url, "resource") /\ ~Contains(url, "folder") =>
                              resources[k].type = "resource"

\* a link with both markers gave a folder, a link with only `resource` a
\* file, and an activity linking to a quiz was left out
C5_Witness ==
    /\ scrapePc = "ok"
    /\ Len(resources) = 2
    /\ resources[1].url = BothLink /\ resources[1].type = "folder"
    /\ resources[2].url = ResourceLink /\ resources[2].type = "resource"
    /\ \E k \in DOMAIN PageActivities(page) :
           LET a == PageActivities(page)[k]
           IN  /\ a.instancename.present
               /\ FindHref(a.anchors) = Anchor(QuizLink)

NoTrailingWhitespace(s) == s = <<>> \/ ~isspace(s[Len(s)])

\* C6: the sanitizer's result contains only alphanumeric characters (as
\* str.isalnum has them, the non-ASCII ones included), spaces, underscores,
\* periods and hyphens, and has no trailing whitespace.
C6_SafeCharacters ==
    sanPc = "done" =>
        /\ \A i \in DOMAIN sanitized :
               isalnum(sanitized[i]) \/ sanitized[i] \in {" ", "_", ".", "-"}
        /\ NoTrailingWhitespace(sanitized)

\* C6 as claimed: no character outside [A-Za-z0-9 _.-], no trailing
\* whitespace.
C6_Original ==
    sanPc = "done" =>
        /\ \A i \in DOMAIN sanitized : sanitized[i] \in AsciiSafe
        /\ NoTrailingWhitespace(sanitized)

\* a non-ASCII letter was kept, a slash dropped and a trailing space cut
C6_Witness ==
    /\ sanPc = "done"
    /\ filename = <<"U+00E9", "/", " ">>
    /\ sanitized = <<"U+00E9">>

====
